---- MODULE Spec2Model ----
(***************************************************************************)
(* The window geometry controller of ImageOverlay (src/main.py, classes    *)
(* ImageOverlayApp and TitleBar): hit-testing, drag-to-move by the window  *)
(* and by its title bar, drag-to-resize with the aspect-ratio lock, cursor *)
(* feedback, image load and image rotation.                                *)
(*                                                                         *)
(* Representation.                                                         *)
(*  - A QRect is a record [x, y, w, h]; Qt stores (x1, y1, x2, y2) with    *)
(*    x2 = x1 + w - 1, and the QRect operators below are written on that.  *)
(*  - A QPoint is a pair <<x, y>>.                                         *)
(*  - Python's None is the empty tuple <<>>; an optional rectangle that is *)
(*    present is the 1-tuple <<rect>>.                                     *)
(*  - The float aspect_ratio = width / height is kept as the reduced       *)
(*    fraction <<n, d>>, and stands for the IEEE double nearest to n / d.  *)
(*    Float expressions are computed as the doubles compute them: the      *)
(*    quotient n / d is rounded to 53 bits, so is every product, quotient  *)
(*    and sum made with it, and int() cuts the result toward zero (section *)
(*    "IEEE doubles").  The scale of load_image, which starts from the     *)
(*    double 0.85, carries the error of its chain of doubles with it.      *)
(***************************************************************************)
EXTENDS Integers, Sequences, FiniteSets, TLC

VARIABLES
    geo,               \* QWidget geometry of the (frameless) window
    resizing,          \* self.resizing
    dragging,          \* self.dragging
    resize_edge,       \* self.resize_edge: <<>> or <<mask>>
    start_pos,         \* self.start_pos: <<>> or a point
    drag_start_pos,    \* self.drag_start_pos
    window_start_pos,  \* self.window_start_pos
    start_geometry,    \* self.start_geometry: <<>> or <<rect>>
    aspect_ratio,      \* self.aspect_ratio: <<>> or <<n, d>>
    pixmap,            \* self.image_widget.pixmap: <<>> or <<w, h>>
    cursor,            \* the cursor shape set on the window
    resize_margin,     \* self.resize_margin
    screen,            \* QApplication.primaryScreen(): <<>> or <<availableGeometry>>
    error,             \* "" or the exception that escaped a handler
    presses,           \* number of left presses handled so far
    loads,             \* number of load_image calls so far
    rotations,         \* number of rotate_image calls so far
    title_start_pos,   \* TitleBar.start_pos: <<>> or a point
    click_pos,         \* TitleBar.click_pos: <<>> or a point
    parent_pos,        \* TitleBar.parent_pos: <<>> (not yet assigned) or a point
    title_presses,     \* number of left presses the title bar handled so far
    rot_run            \* geometry/aspect before each rotation of the current run
                       \* of successive rotations

vars == <<geo, resizing, dragging, resize_edge, start_pos, drag_start_pos,
          window_start_pos, start_geometry, aspect_ratio, pixmap, cursor,
          resize_margin, screen, error, presses, loads, rotations, rot_run,
          title_start_pos, click_pos, parent_pos, title_presses>>

interaction == <<resizing, dragging, resize_edge, start_pos, drag_start_pos,
                 window_start_pos, start_geometry>>
counters == <<presses, loads, rotations, title_presses>>
title_bar == <<title_start_pos, click_pos, parent_pos>>

----------------------------------------------------------------------------
(* Bounds of the model *)

\* Spec: left presses (window and title bar), loads and rotations handled,
\* all together
MaxOps == 2
\* SpecRotate: left presses handled, and rotations handled
MaxRotatePresses == 1
MaxRotations == 4
\* SpecRotate: the widest and highest window that is rotated (the strip's
\* aspect lock makes a resized window hundreds of thousands of units wide)
MaxExtent == 20000
\* SpecEdge: left presses, loads and rotations handled
MaxEdgePresses == 2
MaxEdgeLoads == 1
MaxEdgeRotations == 1
\* SpecLock: left presses and loads handled, and the widest horizontal
\* pointer displacement, in steps of LockStep
MaxLockPresses == 1
MaxLockLoads == 1
MaxLockSteps == 5

(* Program constants *)

ResizeMargin == 10
MinSize == 100
ResizeExtraW == 18
ResizeExtraH == 78
ChromeExtraW == 18
ChromeBorderH == 18
TitleBarHeight == 30
BottomBarHeight == 35
BottomBarFallback == 35
DefaultWidth == 500
DefaultHeight == 400
MainLayoutMargin == 5
FrameBorder == 4
TitleBarLeftMargin == 10
TitleButtonWidth == 30
BottomBarMargin == 5
RotateButtonHeight == 25

None == <<>>

----------------------------------------------------------------------------
(* Integer helpers *)

Abs(a) == IF a < 0 THEN -a ELSE a
Max(a, b) == IF a >= b THEN a ELSE b

\* C / Python int(): quotient truncated toward zero, for d > 0
TruncDiv(n, d) == IF n >= 0 THEN n \div d ELSE -((-n) \div d)

RECURSIVE GCD(_, _)
GCD(a, b) == IF b = 0 THEN a ELSE GCD(b, a % b)

\* pixmap.width() / pixmap.height() as a value: the reduced fraction
Ratio(w, h) == LET g == GCD(w, h) IN <<w \div g, h \div g>>

\* bit test of an edge mask: 1 Left, 2 Right, 4 Top, 8 Bottom
HasBit(edge, b) == (edge \div b) % 2 = 1

----------------------------------------------------------------------------
(* QRect / QPoint *)

Rect(x, y, w, h) == [x |-> x, y |-> y, w |-> w, h |-> h]
Left(r) == r.x
Top(r) == r.y
Right(r) == r.x + r.w - 1
Bottom(r) == r.y + r.h - 1
SetLeft(r, l) == [r EXCEPT !.x = l, !.w = r.x + r.w - l]
SetTop(r, t) == [r EXCEPT !.y = t, !.h = r.y + r.h - t]
SetRight(r, x2) == [r EXCEPT !.w = x2 - r.x + 1]
SetBottom(r, y2) == [r EXCEPT !.h = y2 - r.y + 1]
SetWidth(r, w) == [r EXCEPT !.w = w]
SetHeight(r, h) == [r EXCEPT !.h = h]
MoveLeft(r, l) == [r EXCEPT !.x = l]
MoveTop(r, t) == [r EXCEPT !.y = t]
\* QRect::center(): ((x1 + x2) / 2, (y1 + y2) / 2) in C++ integer division
Center(r) == <<TruncDiv(Left(r) + Right(r), 2), TruncDiv(Top(r) + Bottom(r), 2)>>
\* QRect::moveCenter(p): x1 = p.x - (x2 - x1) / 2, size kept
MoveCenter(r, p) == [r EXCEPT !.x = p[1] - TruncDiv(r.w - 1, 2),
                              !.y = p[2] - TruncDiv(r.h - 1, 2)]

PAdd(p, q) == <<p[1] + q[1], p[2] + q[2]>>
PSub(p, q) == <<p[1] - q[1], p[2] - q[2]>>
Pos(r) == <<r.x, r.y>>
\* mapFromGlobal of a frameless top-level window
MapFromGlobal(g, p) == PSub(p, Pos(g))

\* the title bar in global coordinates: inside the main layout's margin and
\* the frame's border, as wide as the frame's contents, of fixed height
TitleBarRect(g) ==
    Rect(g.x + MainLayoutMargin + FrameBorder, g.y + MainLayoutMargin + FrameBorder,
         g.w - 2 * (MainLayoutMargin + FrameBorder), TitleBarHeight)
\* QWidget.mapToGlobal / mapFromGlobal of a child widget whose rectangle is r
MapToGlobal(r, p) == PAdd(p, Pos(r))

----------------------------------------------------------------------------
(* The widgets of the window, as __init__ lays them out, by window-local
   position.  The central widget fills the window and shows in the main
   layout's margin; the container frame shows in its border; inside the
   border the title bar, the image widget and the bottom bar lie one under
   the other, the two bars of fixed height.  Qt sends a pointer event to the
   innermost widget under the position that toPoint() rounds the pointer to;
   a pointer on the last half unit of the window is rounded to one past its
   last column or row, where no child lies, and the event is the window's
   own.

   The two bars place their items (buttons, labels, the slider) by the
   metrics of the font: "title_bar" and "bottom_bar" are the positions no
   button or slider covers in any font (the left margin of the title bar's
   layout; the left margin of the bottom bar's layout and the rows above
   and below its controls, where the bar or its label shows), and the other
   positions of a bar are its "items".  A window lower than the two bars and
   the border has the rows inside its border "squeezed". *)

WidgetAt(g, l) ==
    LET x     == l[1]
        y     == l[2]
        inset == MainLayoutMargin + FrameBorder
        row   == y - (g.h - inset - BottomBarHeight)
        free  == (BottomBarHeight - RotateButtonHeight) \div 2
    IN  IF x < 0 \/ x > g.w \/ y < 0 \/ y > g.h THEN "none"
        ELSE IF x = g.w \/ y = g.h THEN "window"
        ELSE IF \/ x < MainLayoutMargin \/ x >= g.w - MainLayoutMargin
                \/ y < MainLayoutMargin \/ y >= g.h - MainLayoutMargin
        THEN "central_widget"
        ELSE IF \/ x < inset \/ x >= g.w - inset
                \/ y < inset \/ y >= g.h - inset
        THEN "container_frame"
        ELSE IF g.h < 2 * inset + TitleBarHeight + BottomBarHeight THEN "squeezed"
        ELSE IF y < inset + TitleBarHeight
        THEN IF x < inset + TitleBarLeftMargin THEN "title_bar" ELSE "title_bar_items"
        ELSE IF row < 0 THEN "image_widget"
        ELSE IF \/ x < inset + BottomBarMargin
                \/ row < free \/ row >= BottomBarHeight - free
        THEN "bottom_bar"
        ELSE "bottom_bar_items"

\* the widgets with mouse tracking: a pointer move with no button held is
\* sent to these only
Tracking == {"window", "central_widget", "container_frame", "image_widget"}

\* the widgets whose press reaches handle_mouse_press: those with the event
\* filter installed (the label of the bottom bar is counted with the bar),
\* and the window by its own mousePressEvent
Filtered == {"window", "central_widget", "container_frame", "image_widget", "bottom_bar"}

----------------------------------------------------------------------------
(* Chrome extent, as load_image and rotate_image compute it *)

\* title_h + bottom_h + 18, with the bottom bar's fallback height
ChromeExtraH(title_h, bottom_h) ==
    title_h + (IF bottom_h < BottomBarFallback THEN BottomBarFallback ELSE bottom_h)
            + ChromeBorderH

extra_h == ChromeExtraH(TitleBarHeight, BottomBarHeight)

----------------------------------------------------------------------------
(* get_resize_edge *)

\* the hit test with four independent ifs instead of if / elif
get_resize_edge_bothIfs(x, y, w, h, m) ==
    (IF x < m THEN 1 ELSE 0) + (IF x > w - m THEN 2 ELSE 0)
  + (IF y < m THEN 4 ELSE 0) + (IF y > h - m THEN 8 ELSE 0)

\* the hit test with the margin's boundary counted as inside it
get_resize_edge_inclusive(x, y, w, h, m) ==
    (IF x <= m THEN 1 ELSE IF x >= w - m THEN 2 ELSE 0)
  + (IF y <= m THEN 4 ELSE IF y >= h - m THEN 8 ELSE 0)

get_resize_edge(x, y, w, h, m) ==
    (IF x < m THEN 1 ELSE IF x > w - m THEN 2 ELSE 0)
  + (IF y < m THEN 4 ELSE IF y > h - m THEN 8 ELSE 0)

\* the edge under a local position of the current window
EdgeAt(g, local) == get_resize_edge(local[1], local[2], g.w, g.h, resize_margin)

(* update_cursor: the cursor shape for an edge mask *)
CursorFor(edge) ==
    IF edge = 1 \/ edge = 2 THEN "SizeHor"
    ELSE IF edge = 4 \/ edge = 8 THEN "SizeVer"
    ELSE IF edge = 5 \/ edge = 10 THEN "SizeFDiag"
    ELSE IF edge = 6 \/ edge = 9 THEN "SizeBDiag"
    ELSE "Arrow"

----------------------------------------------------------------------------
(* IEEE doubles.

   aspect_ratio and the scales of load_image and rotate_image are quotients of
   two integers, n / d, rounded to the nearest double: 53 significant bits,
   ties to the even mantissa.  With 2^E <= n / d < 2^(E + 1) the double is
       n / d + delta / (d * 2^(52 - E)),
   where delta is minus the remainder of n * 2^(52 - E) by d when the
   quotient is rounded down, and d minus that remainder when it is rounded up.

   A product u * (n / d), or a quotient u / (n / d), whose exact value is not
   an integer is further from the next integer than the doubles can err, and
   int() yields the integer part of the exact value.  When the exact value is
   an integer k the double result is k or the double just below k, which
   int() cuts to k - 1; which one is decided by comparing the error inherited
   from n / d with half the spacing of the doubles below k.

   The operands are window and image extents: the products u * d and u * n
   stay below 2^30. *)

Pow2(n) == 2^n

\* the greatest e with 2^e <= k, counted up from e
RECURSIVE FloorLog2(_, _)
FloorLog2(k, e) == IF Pow2(e + 1) <= k THEN FloorLog2(k, e + 1) ELSE e

\* <<(x * 2^n) mod v, the last bit of (x * 2^n) div v>>, eight bits at a time
RECURSIVE DoubleMod(_, _, _, _)
DoubleMod(x, v, n, bit) ==
    IF n = 0 THEN <<x, bit>>
    ELSE LET k == IF n >= 8 THEN 8 ELSE n
             y == x * Pow2(k)
         IN  DoubleMod(y % v, v, n - k, (y \div v) % 2)

\* the binary exponent E of n / d: 2^E <= n / d < 2^(E + 1), counted from e
RECURSIVE RatioExp(_, _, _)
RatioExp(n, d, e) ==
    IF n >= d
    THEN IF n \div Pow2(e + 1) >= d THEN RatioExp(n, d, e + 1) ELSE e
    ELSE IF n * Pow2(-e) < d THEN RatioExp(n, d, e - 1) ELSE e

\* n / d as a double: <<E, delta>> with double = n / d + delta / (d * 2^(52 - E))
RoundDelta(n, d) ==
    LET E   == RatioExp(n, d, 0)
        rb  == DoubleMod(n % d, d, 52 - E, 0)
        rem == rb[1]
    IN  <<E, IF rem = 0 THEN 0
             ELSE IF 2 * rem < d \/ (2 * rem = d /\ rb[2] = 0) THEN -rem
             ELSE d - rem>>

\* the doubles just below the integer k are 2^(SpacingExp(k) - 52) apart
SpacingExp(k) ==
    LET e == FloorLog2(k, 0) IN IF Pow2(e) = k THEN e - 1 ELSE e

\* 2^x for x > 0, and 1 otherwise
Up(x) == IF x > 0 THEN Pow2(x) ELSE 1

\* a / b > c / d for a, c >= 0 and b, d > 0, by integer parts and remainders
RECURSIVE FracGreater(_, _, _, _)
FracGreater(a, b, c, d) ==
    IF a \div b # c \div d THEN a \div b > c \div d
    ELSE IF a % b = 0 THEN FALSE
    ELSE IF c % d = 0 THEN TRUE
    ELSE FracGreater(d, c % d, b, a % b)

\* u * (n / d) in doubles falls below the integer k = u * n / d: the double
\* of n / d was rounded down, and the product is more than half a spacing
\* below k, that is u * (-delta) * 2^(E + 2) > d * 2^(SpacingExp(k) + 1)
MulBelow(u, n, d) ==
    LET rd == RoundDelta(n, d)
        E  == rd[1]
        t  == Pow2(SpacingExp((u * n) \div d) + 1)
    IN  /\ rd[2] < 0
        /\ FracGreater((-rd[2]) * Up(E + 2), d, t * Up(-E - 2), u)

\* u / (n / d) in doubles falls below the integer k = u * d / n: the double
\* of n / d was rounded up, and the quotient is more than half a spacing
\* below k, that is k * delta * 2^(E + 2) > n * 2^(SpacingExp(k) + 1)
DivBelow(u, n, d) ==
    LET rd == RoundDelta(n, d)
        E  == rd[1]
        k  == (u * d) \div n
    IN  /\ rd[2] > 0
        /\ FracGreater(k, Pow2(SpacingExp(k) + 1), n * Up(-E - 2), rd[2] * Up(E + 2))

\* int(q + c) for the double q = k, or for the double just below k: a sum
\* that needs more bits than q had is rounded back up to k + c
AddTrunc(k, below, c) ==
    IF below /\ SpacingExp(k) >= SpacingExp(k + c) THEN k + c - 1 ELSE k + c

\* int(u * (n / d) + c) for integers u >= 1, n >= 1, d >= 1, c >= 0
FloatMulAddTrunc(u, n, d, c) ==
    IF (u * n) % d # 0 THEN (u * n) \div d + c
    ELSE AddTrunc((u * n) \div d, MulBelow(u, n, d), c)

\* int(u / (n / d) + c) for integers u >= 1, n >= 1, d >= 1, c >= 0
FloatDivAddTrunc(u, n, d, c) ==
    IF (u * d) % n # 0 THEN (u * d) \div n + c
    ELSE AddTrunc((u * d) \div n, DivBelow(u, n, d), c)

\* a > u * (n / d) for integers a >= 0, u >= 0
GreaterThanProduct(a, u, n, d) ==
    IF u = 0 THEN a > 0
    ELSE IF a * d # u * n THEN a * d > u * n
    ELSE MulBelow(u, n, d)

\* the integer nearest to n / d, a tie going to the even one
RoundRat(n, d) ==
    LET q == n \div d
        r == n % d
    IN  IF 2 * r < d THEN q
        ELSE IF 2 * r > d THEN q + 1
        ELSE IF q % 2 = 0 THEN q ELSE q + 1

\* int(u * (s / v)), lines 487-491
FloatMulTrunc(u, s, v) == FloatMulAddTrunc(u, s, v, 0)

----------------------------------------------------------------------------
(* handle_resize *)

\* the driven height with the ratio multiplied instead of divided
HeightFromWidth_multiplies(w, ar) ==
    LET cw == IF w - ResizeExtraW < 1 THEN 1 ELSE w - ResizeExtraW
    IN  FloatMulAddTrunc(cw, ar[1], ar[2], ResizeExtraH)

\* the driven height rounded to the nearest integer instead of cut
HeightFromWidth_rounds(w, ar) ==
    LET cw == IF w - ResizeExtraW < 1 THEN 1 ELSE w - ResizeExtraW
    IN  TruncDiv(2 * cw * ar[2] + ar[1], 2 * ar[1]) + ResizeExtraH

\* lines 652-655 and 678-681: int(target_content_w / aspect_ratio + extra_h)
HeightFromWidth(w, ar) ==
    LET cw == IF w - ResizeExtraW < 1 THEN 1 ELSE w - ResizeExtraW
    IN  FloatDivAddTrunc(cw, ar[1], ar[2], ResizeExtraH)

\* lines 660-663 and 689-692: int(target_content_h * aspect_ratio + extra_w)
WidthFromHeight(h, ar) ==
    LET ch == IF h - ResizeExtraH < 1 THEN 1 ELSE h - ResizeExtraH
    IN  FloatMulAddTrunc(ch, ar[1], ar[2], ResizeExtraW)

\* the candidate without the Bottom branch
CandidateGeometry_bottomIgnored(sg, edge, diff) ==
    LET g1 == IF HasBit(edge, 1) THEN SetLeft(sg, Left(sg) + diff[1])
              ELSE IF HasBit(edge, 2) THEN SetRight(sg, Right(sg) + diff[1])
              ELSE sg
    IN  IF HasBit(edge, 4) THEN SetTop(g1, Top(sg) + diff[2]) ELSE g1

\* lines 613-621: the candidate rectangle, moving only the edges of the mask
CandidateGeometry(sg, edge, diff) ==
    LET g1 == IF HasBit(edge, 1) THEN SetLeft(sg, Left(sg) + diff[1])
              ELSE IF HasBit(edge, 2) THEN SetRight(sg, Right(sg) + diff[1])
              ELSE sg
    IN  IF HasBit(edge, 4) THEN SetTop(g1, Top(sg) + diff[2])
        ELSE IF HasBit(edge, 8) THEN SetBottom(g1, Bottom(sg) + diff[2])
        ELSE g1

\* the lock with corners always driven by the width
ConstrainAspect_widthDrivesCorners(sg, cand, edge, ar) ==
    IF edge = 1 \/ edge = 2 THEN SetHeight(cand, HeightFromWidth(cand.w, ar))
    ELSE IF edge = 4 \/ edge = 8 THEN SetWidth(cand, WidthFromHeight(cand.h, ar))
    ELSE LET new_h == HeightFromWidth(cand.w, ar)
         IN  IF HasBit(edge, 4)
             THEN SetTop(cand, Bottom(cand) - new_h + 1)
             ELSE SetHeight(cand, new_h)

\* lines 624-697: the aspect-ratio lock applied to the candidate
ConstrainAspect(sg, cand, edge, ar) ==
    IF edge = 1 \/ edge = 2 THEN SetHeight(cand, HeightFromWidth(cand.w, ar))
    ELSE IF edge = 4 \/ edge = 8 THEN SetWidth(cand, WidthFromHeight(cand.h, ar))
    ELSE
        LET delta_w == Abs(cand.w - sg.w)
            delta_h == Abs(cand.h - sg.h)
        IN  IF GreaterThanProduct(delta_w, delta_h, ar[1], ar[2])
            THEN LET new_h == HeightFromWidth(cand.w, ar)
                 IN  IF HasBit(edge, 4)
                     THEN SetTop(cand, Bottom(cand) - new_h + 1)
                     ELSE SetHeight(cand, new_h)
            ELSE LET new_w == WidthFromHeight(cand.h, ar)
                 IN  IF HasBit(edge, 1)
                     THEN SetLeft(cand, Right(cand) - new_w + 1)
                     ELSE SetWidth(cand, new_w)

\* lines 699-703 without the height check
MinimumSize_widthOnly(g) ==
    IF g.w < MinSize THEN SetWidth(g, MinSize) ELSE g

\* lines 699-703: the minimum size check
MinimumSize(g) ==
    LET g1 == IF g.w < MinSize THEN SetWidth(g, MinSize) ELSE g
    IN  IF g1.h < MinSize THEN SetHeight(g1, MinSize) ELSE g1

\* the rectangle handle_resize passes to setGeometry
ResizeGeometry(sg, edge, ar, diff) ==
    LET cand == CandidateGeometry(sg, edge, diff)
    IN  MinimumSize(IF ar # None THEN ConstrainAspect(sg, cand, edge, ar) ELSE cand)

----------------------------------------------------------------------------
(* load_image: the window size and position for a decoded image *)

(* The scale of load_image is a double <<n, d, S, D>>, standing for
       n / d + D / (d * 2^(53 + S)):
   n / d is what exact arithmetic gives and D the error that the doubles
   0.85, screen * 0.85 and max_img / img have gathered. *)

\* the double 1.0
ScaleOne == <<1, 1, 0, 0>>

\* lines 399-403: s * 0.85 - extra as <<P, eta>>, the double
\* P / 20 + eta / (20 * 2^53).  0.85 is the double 17/20 + c / (20 * 2^53);
\* the product is rounded to 53 bits, where no tie can occur as s is a whole
\* number; taking the whole number extra from it is exact as long as the
\* result is positive (a usable area at least 22 wide and 98 high)
MaxImage(s, extra) ==
    LET c  == RoundDelta(17, 20)
        Ea == RatioExp(17 * s, 20, 0)
        W  == 20 * Pow2(Ea + 1)
        hi == DoubleMod((17 * s) % W, W, 52 - c[1], 0)[1]
        R  == (hi + c[2] * s) % W
    IN  <<17 * s - 20 * extra,
          IF 2 * R < W THEN c[2] * s - R ELSE c[2] * s + W - R>>

\* lines 410-411: max_img / img rounded to 53 bits, ties to the even mantissa
ScaleQuotient(max_img, i) ==
    LET P   == max_img[1]
        eta == max_img[2]
        V   == 20 * i
        E0  == RatioExp(P, V, 0)
        E   == IF eta < 0 /\ P * Up(-E0) = V * Up(E0) THEN E0 - 1 ELSE E0
        S   == IF E < 0 THEN -1 - E ELSE 0
        m   == V * Up(E + 1)
        rb  == DoubleMod(P % m, m, 53 + S, 0)
        t   == rb[1] + eta * Pow2(S)
        rz  == t % m
        par == (rb[2] + (t - rz) \div m) % 2
        k   == IF rz = 0 THEN 0
               ELSE IF 2 * rz < m \/ (2 * rz = m /\ par = 0) THEN -rz
               ELSE m - rz
    IN  <<P, V, S, eta * Pow2(S) + k>>

\* the double a is less than or equal to the double b, both of the form
\* max_img / img before rounding (rounding keeps the order)
QuotientAtMost(a, i, b, j) ==
    \/ a[1] * j < b[1] * i
    \/ a[1] * j = b[1] * i /\ a[2] * j <= b[2] * i

\* the scale is greater than 1.0
AboveOne(sc) == sc[1] > sc[2] \/ (sc[1] = sc[2] /\ sc[4] > 0)

\* the double u * scale, whose exact value is near the integer k, is the
\* double StepsBelow doubles below k
StepsBelow(u, sc) ==
    IF sc[4] >= 0 THEN 0
    ELSE LET g == GCD(u, sc[2])
         IN  RoundRat((u \div g) * (-sc[4]),
                      (sc[2] \div g)
                          * Pow2(sc[3] + SpacingExp((u * sc[1]) \div sc[2]) + 1))

\* int(q + c) for the double q that is j doubles below the integer k
AddTruncSteps(k, j, c) ==
    IF RoundRat(j, Pow2(SpacingExp(k + c) - SpacingExp(k))) >= 1
    THEN k + c - 1 ELSE k + c

\* lines 420-421: int(img * scale + extra)
ScaledPlus(v, sc, extra) ==
    IF (v * sc[1]) % sc[2] # 0 THEN (v * sc[1]) \div sc[2] + extra
    ELSE AddTruncSteps((v * sc[1]) \div sc[2], StepsBelow(v, sc), extra)

\* the scale without the cap at 1.0
LoadScale_uncapped(img, sg) ==
    LET max_img_w == MaxImage(sg.w, ChromeExtraW)
        max_img_h == MaxImage(sg.h, extra_h)
    IN  IF QuotientAtMost(max_img_w, img[1], max_img_h, img[2])
        THEN ScaleQuotient(max_img_w, img[1])
        ELSE ScaleQuotient(max_img_h, img[2])

\* lines 399-418: min(scale_w, scale_h), capped at 1.0
LoadScale(img, sg) ==
    LET max_img_w == MaxImage(sg.w, ChromeExtraW)
        max_img_h == MaxImage(sg.h, extra_h)
        scale == IF QuotientAtMost(max_img_w, img[1], max_img_h, img[2])
                 THEN ScaleQuotient(max_img_w, img[1])
                 ELSE ScaleQuotient(max_img_h, img[2])
    IN  IF AboveOne(scale) THEN ScaleOne ELSE scale

\* load_image resizing the window where it stands, with or without a screen
LoadGeometry_notCentred(g, img, scr) ==
    IF scr # None
    THEN LET scale == LoadScale(img, scr[1])
         IN  Rect(g.x, g.y, ScaledPlus(img[1], scale, ChromeExtraW),
                  ScaledPlus(img[2], scale, extra_h))
    ELSE Rect(g.x, g.y, img[1] + ChromeExtraW, img[2] + extra_h)

\* lines 395-433: the geometry load_image leaves the window with
LoadGeometry(g, img, scr) ==
    IF scr # None
    THEN LET sg == scr[1]
             scale == LoadScale(img, sg)
             target_w == ScaledPlus(img[1], scale, ChromeExtraW)
             target_h == ScaledPlus(img[2], scale, extra_h)
         IN  Rect(sg.x + (sg.w - target_w) \div 2,
                  sg.y + (sg.h - target_h) \div 2, target_w, target_h)
    ELSE Rect(g.x, g.y, img[1] + ChromeExtraW, img[2] + extra_h)

----------------------------------------------------------------------------
(* rotate_image: the window size and position after a rotation *)

\* the swap adding back the chrome height of handle_resize
SwappedSize_resizeChrome(g) ==
    LET content_w == Max(1, g.w - ChromeExtraW)
        content_h == Max(1, g.h - extra_h)
    IN  <<content_h + ResizeExtraW, content_w + ResizeExtraH>>

\* lines 449-479: content width and height swapped, chrome added back
SwappedSize(g) ==
    LET content_w == Max(1, g.w - ChromeExtraW)
        content_h == Max(1, g.h - extra_h)
    IN  <<content_h + ChromeExtraW, content_w + extra_h>>

\* line 486: the swapped size does not fit the usable screen area
NeedsScaleDown(sz, sg) == sz[1] > sg.w \/ sz[2] > sg.h

\* lines 486-491 without the scale-down
FitToScreen_noScale(sz, sg) == sz

\* lines 486-491: scale down to the screen, keeping the new aspect ratio
FitToScreen(sz, sg) ==
    IF NeedsScaleDown(sz, sg)
    THEN IF sg.w * sz[2] <= sg.h * sz[1]
         THEN <<FloatMulTrunc(sz[1], sg.w, sz[1]), FloatMulTrunc(sz[2], sg.w, sz[1])>>
         ELSE <<FloatMulTrunc(sz[1], sg.h, sz[2]), FloatMulTrunc(sz[2], sg.h, sz[2])>>
    ELSE sz

\* lines 493-496 alone: centred on the previous centre, not kept on screen
PlaceRotated_noClamp(g, sz, sg) == MoveCenter(Rect(0, 0, sz[1], sz[2]), Center(g))

\* lines 493-500: centred on the previous centre, top-left kept on screen
PlaceRotated(g, sz, sg) ==
    LET c  == MoveCenter(Rect(0, 0, sz[1], sz[2]), Center(g))
        c1 == IF Left(c) < Left(sg) THEN MoveLeft(c, Left(sg)) ELSE c
    IN  IF Top(c1) < Top(sg) THEN MoveTop(c1, Top(sg)) ELSE c1

RotateGeometry(g, sg) == PlaceRotated(g, FitToScreen(SwappedSize(g), sg), sg)

\* QPixmap.transformed by a rotation of +-90 degrees
RotatedPixmap(pm) == <<pm[2], pm[1]>>

----------------------------------------------------------------------------
(* Inputs *)

Buttons == {"Left", "Right"}
Angles == {-90, 90}

\* decoded image sizes in pixels; <<0, 0>> is a file QImage cannot decode
NullImage == <<0, 0>>
\* an image whose ratio 61 / 7 is a double below 61 / 7, and one whose ratio
\* 3 / 1092 is a double above 1 / 364 and whose scale on loading, 597 / 1092,
\* is a double below it
RoundedDown == <<61, 7>>
RoundedUp == <<3, 1092>>

\* an image whose width scaled on the 1366 x 768 area is 37 in exact
\* arithmetic and a double below 37 by the rounding of 768 * 0.85
ScreenRounded == <<55, 847>>
Images == {<<300, 200>>, <<800, 600>>, RoundedDown, RoundedUp, ScreenRounded}
Files == Images \cup {NullImage}

\* a one-pixel-high strip: scaled down on loading, its content height is 0
Banner == <<900, 1>>

\* the images that are rotated
RotateImages == {<<300, 200>>, <<800, 600>>, <<40, 10>>, Banner}

\* the usable area of the primary screen, when there is one
ScreenGeo == Rect(0, 0, 1000, 800)

\* a usable area whose sides times 0.85 are not whole numbers
LaptopScreenGeo == Rect(0, 0, 1366, 768)

\* a usable area high enough for the rotated strip
SquareScreenGeo == Rect(0, 0, 1000, 1000)

\* pointer displacements of a gesture: none, growing diagonally, growing
\* horizontally, shrinking below the minimum size, growing along the diagonal
\* of the 61 : 7 image
Deltas == {<<0, 0>>, <<40, 40>>, <<40, 0>>, <<-450, -450>>, RoundedDown}

\* pointer displacements of a drag by the title bar: a short one, and one that
\* takes the window off the screen
TitleBarDeltas == {<<40, 0>>, <<-450, -450>>}

\* local positions on the left/top margin, in the interior, on the right/bottom
\* margin, those that are inside the window
LocalsOf(len) ==
    {c \in {ResizeMargin \div 2, len \div 2, len - ResizeMargin \div 2} : 0 <= c /\ c < len}
PointsOver(g) == {PAdd(Pos(g), <<lx, ly>>) : lx \in LocalsOf(g.w), ly \in LocalsOf(g.h)}

\* the positions of a set over a widget of the window that is one of ws
PointsOn(points, ws) == {p \in points : WidgetAt(geo, MapFromGlobal(geo, p)) \in ws}

\* where the pointer can be when a button goes down and the press reaches
\* handle_mouse_press
PressPoints == PointsOn(PointsOver(geo), Filtered)

\* where a button can go down over the title bar itself: the middle of the
\* left margin of its layout
TitleBarPoints(g) ==
    LET r == TitleBarRect(g)
    IN  IF r.w > TitleBarLeftMargin \div 2
        THEN {<<r.x + TitleBarLeftMargin \div 2, r.y + r.h \div 2>>}
        ELSE {}

\* where the pointer can move to with a button held since a press on the
\* title bar
TitleBarMovePoints ==
    IF title_start_pos = None THEN {}
    ELSE {PAdd(title_start_pos, d) : d \in TitleBarDeltas}

\* where a pointer move can be that reaches handle_mouse_move: displaced from
\* the anchor of the gesture in progress, whose widget has the events until
\* the release, or hovering with no button held over a widget with mouse
\* tracking
MovePoints ==
    IF resizing THEN {PAdd(start_pos, d) : d \in Deltas}
    ELSE IF dragging THEN {PAdd(drag_start_pos, d) : d \in Deltas}
    ELSE PointsOn(PointsOver(geo), Tracking)

----------------------------------------------------------------------------
(* Initial states *)

\* where the window system places the new window
InitialPos == <<100, 100>>

\* ImageOverlayApp.__init__ without a file argument
Init ==
    /\ geo = Rect(InitialPos[1], InitialPos[2], DefaultWidth, DefaultHeight)
    /\ resizing = FALSE
    /\ dragging = FALSE
    /\ resize_edge = None
    /\ start_pos = None
    /\ drag_start_pos = None
    /\ window_start_pos = None
    /\ start_geometry = None
    /\ aspect_ratio = None
    /\ pixmap = None
    /\ cursor = "Arrow"
    /\ resize_margin = ResizeMargin
    /\ screen \in {None, <<ScreenGeo>>, <<LaptopScreenGeo>>}
    /\ error = ""
    /\ presses = 0
    /\ loads = 0
    /\ rotations = 0
    /\ rot_run = <<>>
    /\ title_start_pos = None
    /\ click_pos = None
    /\ parent_pos = None
    /\ title_presses = 0

----------------------------------------------------------------------------
(* Pointer handlers *)

\* a press that keeps the anchors of the previous gesture
handle_mouse_press_keepsAnchors(global_pos) ==
    LET edge == EdgeAt(geo, MapFromGlobal(geo, global_pos))
    IN  IF edge # 0
        THEN /\ resizing' = TRUE
             /\ resize_edge' = <<edge>>
             /\ start_pos' = global_pos
             /\ UNCHANGED <<dragging, drag_start_pos, window_start_pos, start_geometry>>
        ELSE /\ dragging' = TRUE
             /\ drag_start_pos' = global_pos
             /\ UNCHANGED <<resizing, resize_edge, start_pos, start_geometry,
                            window_start_pos>>

\* handle_mouse_press(global_pos)
handle_mouse_press(global_pos) ==
    LET edge == EdgeAt(geo, MapFromGlobal(geo, global_pos))
    IN  IF edge # 0
        THEN /\ resizing' = TRUE
             /\ resize_edge' = <<edge>>
             /\ start_pos' = global_pos
             /\ start_geometry' = <<geo>>
             /\ UNCHANGED <<dragging, drag_start_pos, window_start_pos>>
        ELSE /\ dragging' = TRUE
             /\ drag_start_pos' = global_pos
             /\ window_start_pos' = Pos(geo)
             /\ UNCHANGED <<resizing, resize_edge, start_pos, start_geometry>>

\* a resize that applies the displacement to the current geometry
handle_resize_incremental(global_pos) ==
    geo' = ResizeGeometry(geo, resize_edge[1], aspect_ratio,
                          PSub(global_pos, start_pos))

\* handle_resize(global_pos), called with self.resizing set
handle_resize(global_pos) ==
    geo' = ResizeGeometry(start_geometry[1], resize_edge[1], aspect_ratio,
                          PSub(global_pos, start_pos))

\* handle_mouse_move recomputing the cursor in every branch
handle_mouse_move_alwaysUpdatesCursor(global_pos) ==
    /\ cursor' = CursorFor(EdgeAt(geo, MapFromGlobal(geo, global_pos)))
    /\ IF resizing
       THEN handle_resize(global_pos)
       ELSE IF dragging
       THEN geo' = [geo EXCEPT
                      !.x = window_start_pos[1] + (global_pos[1] - drag_start_pos[1]),
                      !.y = window_start_pos[2] + (global_pos[2] - drag_start_pos[2])]
       ELSE UNCHANGED geo

\* handle_mouse_move(global_pos)
handle_mouse_move(global_pos) ==
    IF resizing
    THEN /\ handle_resize(global_pos)
         /\ UNCHANGED cursor
    ELSE IF dragging
    THEN /\ geo' = [geo EXCEPT
                      !.x = window_start_pos[1] + (global_pos[1] - drag_start_pos[1]),
                      !.y = window_start_pos[2] + (global_pos[2] - drag_start_pos[2])]
         /\ UNCHANGED cursor
    ELSE /\ cursor' = CursorFor(EdgeAt(geo, MapFromGlobal(geo, global_pos)))
         /\ UNCHANGED geo

\* a release that clears resizing only
handle_mouse_release_keepsDragging ==
    /\ resizing' = FALSE
    /\ resize_edge' = None
    /\ cursor' = "Arrow"
    /\ UNCHANGED <<dragging, start_pos, drag_start_pos, window_start_pos, start_geometry>>

\* handle_mouse_release()
handle_mouse_release ==
    /\ resizing' = FALSE
    /\ dragging' = FALSE
    /\ resize_edge' = None
    /\ cursor' = "Arrow"
    /\ UNCHANGED <<start_pos, drag_start_pos, window_start_pos, start_geometry>>

(* Events, as eventFilter and mousePressEvent / mouseMoveEvent /
   mouseReleaseEvent dispatch them *)

\* the dispatch without the test of event.button()
MousePress_anyButton(button, global_pos) ==
    /\ error = ""
    /\ presses' = presses + 1
    /\ handle_mouse_press(global_pos)
    /\ rot_run' = <<>>
    /\ UNCHANGED <<geo, aspect_ratio, pixmap, cursor, resize_margin, screen, error,
                   loads, rotations, title_presses, title_bar>>

MousePress(button, global_pos) ==
    /\ error = ""
    /\ IF button = "Left"
       THEN /\ presses' = presses + 1
            /\ handle_mouse_press(global_pos)
       ELSE UNCHANGED <<interaction, presses>>
    /\ rot_run' = <<>>
    /\ UNCHANGED <<geo, aspect_ratio, pixmap, cursor, resize_margin, screen, error,
                   loads, rotations, title_presses, title_bar>>

MouseMove(global_pos) ==
    /\ error = ""
    /\ handle_mouse_move(global_pos)
    /\ rot_run' = <<>>
    /\ UNCHANGED <<interaction, aspect_ratio, pixmap, resize_margin, screen, error,
                   counters, title_bar>>

MouseRelease(button) ==
    /\ error = ""
    /\ IF button = "Left"
       THEN handle_mouse_release
       ELSE UNCHANGED <<interaction, cursor>>
    /\ rot_run' = <<>>
    /\ UNCHANGED <<geo, aspect_ratio, pixmap, resize_margin, screen, error, counters,
                   title_bar>>

(* The title bar's own mouse handlers; its events do not pass through the
   event filter *)

\* TitleBar.mousePressEvent(event)
TitleBar_mousePressEvent(button, global_pos) ==
    /\ error = ""
    /\ IF button = "Left"
       THEN /\ title_presses' = title_presses + 1
            /\ title_start_pos' = global_pos
            /\ click_pos' = MapToGlobal(TitleBarRect(geo),
                                        MapFromGlobal(TitleBarRect(geo), global_pos))
            /\ parent_pos' = Pos(geo)
       ELSE UNCHANGED <<title_bar, title_presses>>
    /\ rot_run' = <<>>
    /\ UNCHANGED <<geo, interaction, aspect_ratio, pixmap, cursor, resize_margin,
                   screen, error, presses, loads, rotations>>

\* TitleBar.mouseMoveEvent(event); a QPoint is false when it is (0, 0)
TitleBar_mouseMoveEvent(global_pos) ==
    /\ error = ""
    /\ IF title_start_pos # None /\ title_start_pos # <<0, 0>>
       THEN geo' = [geo EXCEPT !.x = parent_pos[1] + (global_pos[1] - title_start_pos[1]),
                               !.y = parent_pos[2] + (global_pos[2] - title_start_pos[2])]
       ELSE UNCHANGED geo
    /\ rot_run' = <<>>
    /\ UNCHANGED <<interaction, title_bar, aspect_ratio, pixmap, cursor, resize_margin,
                   screen, error, counters>>

\* TitleBar.mouseReleaseEvent(event), whatever the button
TitleBar_mouseReleaseEvent(button) ==
    /\ error = ""
    /\ title_start_pos' = None
    /\ rot_run' = <<>>
    /\ UNCHANGED <<geo, interaction, click_pos, parent_pos, aspect_ratio, pixmap, cursor,
                   resize_margin, screen, error, counters>>

----------------------------------------------------------------------------
(* Image operations *)

\* a load that drops the shown image when the file does not decode
load_image_nullClearsImage(img) ==
    /\ error = ""
    /\ loads' = loads + 1
    /\ IF img = NullImage
       THEN pixmap' = None /\ UNCHANGED <<geo, aspect_ratio>>
       ELSE /\ pixmap' = img
            /\ aspect_ratio' = IF img[2] > 0 THEN Ratio(img[1], img[2]) ELSE aspect_ratio
            /\ geo' = LoadGeometry(geo, img, screen)
    /\ rot_run' = <<>>
    /\ UNCHANGED <<interaction, cursor, resize_margin, screen, error, presses,
                   rotations, title_presses, title_bar>>

\* load_image(file_path), the file decoding to an image of size img
load_image(img) ==
    /\ error = ""
    /\ loads' = loads + 1
    /\ IF img = NullImage
       THEN UNCHANGED <<geo, aspect_ratio, pixmap>>
       ELSE /\ pixmap' = img
            /\ aspect_ratio' = IF img[2] > 0 THEN Ratio(img[1], img[2]) ELSE aspect_ratio
            /\ geo' = LoadGeometry(geo, img, screen)
    /\ rot_run' = <<>>
    /\ UNCHANGED <<interaction, cursor, resize_margin, screen, error, presses,
                   rotations, title_presses, title_bar>>

\* rotate_image(angle)
rotate_image(angle) ==
    /\ error = ""
    /\ rotations' = rotations + 1
    /\ IF pixmap = None
       THEN UNCHANGED <<geo, aspect_ratio, pixmap, error, rot_run>>
       ELSE LET new_pixmap == RotatedPixmap(pixmap)
            IN  /\ pixmap' = new_pixmap
                /\ aspect_ratio' = IF new_pixmap[2] > 0
                                   THEN Ratio(new_pixmap[1], new_pixmap[2])
                                   ELSE aspect_ratio
                /\ IF screen # None
                   THEN /\ geo' = RotateGeometry(geo, screen[1])
                        /\ error' = ""
                        /\ rot_run' = Append(rot_run,
                               [w |-> geo.w, h |-> geo.h, ar |-> aspect_ratio,
                                scaled |-> NeedsScaleDown(SwappedSize(geo), screen[1])])
                   ELSE \* screen_geo is unbound at line 499
                        /\ error' = "UnboundLocalError"
                        /\ UNCHANGED <<geo, rot_run>>
    /\ UNCHANGED <<interaction, cursor, resize_margin, screen, presses, loads,
                   title_presses, title_bar>>

----------------------------------------------------------------------------
(* Spec: every interleaving of the operations from the constructed window,
   MaxOps left presses (on the window or on its title bar), loads and
   rotations in all *)

OpsLeft == presses + title_presses + loads + rotations < MaxOps

\* Qt sends the pointer events that follow a press on the title bar to the
\* title bar, until the release
TitleBarGrab == title_start_pos # None

Idle == ~resizing /\ ~dragging

Next ==
    \/ \E b \in Buttons, p \in PressPoints :
          ~TitleBarGrab /\ (b = "Left" => OpsLeft) /\ MousePress(b, p)
    \/ \E p \in MovePoints : ~TitleBarGrab /\ MouseMove(p)
    \/ \E b \in Buttons : ~TitleBarGrab /\ MouseRelease(b)
    \/ \E img \in Files : OpsLeft /\ load_image(img)
    \/ \E a \in Angles : OpsLeft /\ rotate_image(a)
    \/ \E b \in Buttons, p \in TitleBarPoints(geo) :
          Idle /\ (b = "Left" => OpsLeft) /\ TitleBar_mousePressEvent(b, p)
    \/ \E p \in TitleBarMovePoints : TitleBar_mouseMoveEvent(p)
    \/ \E b \in Buttons : TitleBar_mouseReleaseEvent(b)

Spec == Init /\ [][Next]_vars

(* SpecRotate: the window constructed with an image file argument (__init__
   calls load_image), moved and resized by pointer gestures, then rotated
   up to MaxRotations times in a row *)

InitLoaded ==
    /\ screen \in {None, <<ScreenGeo>>, <<SquareScreenGeo>>}
    /\ \E img \in RotateImages :
          /\ pixmap = img
          /\ aspect_ratio = Ratio(img[1], img[2])
          /\ geo = LoadGeometry(Rect(InitialPos[1], InitialPos[2],
                                     DefaultWidth, DefaultHeight), img, screen)
    /\ resizing = FALSE
    /\ dragging = FALSE
    /\ resize_edge = None
    /\ start_pos = None
    /\ drag_start_pos = None
    /\ window_start_pos = None
    /\ start_geometry = None
    /\ cursor = "Arrow"
    /\ resize_margin = ResizeMargin
    /\ error = ""
    /\ presses = 0
    /\ loads = 1
    /\ rotations = 0
    /\ rot_run = <<>>
    /\ title_start_pos = None
    /\ click_pos = None
    /\ parent_pos = None
    /\ title_presses = 0

NextRotate ==
    \/ \E b \in Buttons, p \in PressPoints :
          /\ rotations = 0
          /\ b = "Left" => presses < MaxRotatePresses
          /\ MousePress(b, p)
    \/ \E p \in MovePoints : rotations = 0 /\ MouseMove(p)
    \/ \E b \in Buttons : rotations = 0 /\ MouseRelease(b)
    \/ \E a \in Angles :
          /\ rotations < MaxRotations
          /\ geo.w <= MaxExtent
          /\ geo.h <= MaxExtent
          /\ rotate_image(a)

SpecRotate == InitLoaded /\ [][NextRotate]_vars

(* SpecEdge: the hit test at the presses that reach it (those over the title
   bar are the title bar's own) over the windows the program makes on a screen:
   the constructed window, the window of a one-pixel-wide image (narrower
   than twice the margin), the same dragged wider by its right border, which
   the aspect lock makes tens of thousands of units high, and that one
   rotated and scaled down to the screen (shorter than twice the margin) *)

ThinImage == <<1, 1087>>

\* local positions on the first and last unit of a side and next to the
\* boundaries of the two margins, those that are inside the window
EdgeLocals(len) ==
    {c \in {0, ResizeMargin - 1, ResizeMargin, len - ResizeMargin,
            len - ResizeMargin + 1, len - 1} : 0 <= c /\ c < len}
EdgePoints ==
    {PAdd(Pos(geo), <<lx, ly>>) : lx \in EdgeLocals(geo.w), ly \in EdgeLocals(geo.h)}

\* left presses handled so far, by the window and by the title bar
EdgePressesLeft == presses + title_presses < MaxEdgePresses

\* the displacement of the resize that widens the thin window
EdgeDelta == <<40, 0>>

InitEdge == Init /\ screen = <<ScreenGeo>>

NextEdge ==
    \/ /\ ~TitleBarGrab
       /\ EdgePressesLeft
       /\ \E p \in PointsOn(EdgePoints, Filtered) : MousePress("Left", p)
    \/ /\ Idle
       /\ EdgePressesLeft
       /\ \E p \in PointsOn(EdgePoints, {"title_bar"}) : TitleBar_mousePressEvent("Left", p)
    \/ resizing /\ ~dragging /\ MouseMove(PAdd(start_pos, EdgeDelta))
    \/ ~TitleBarGrab /\ MouseRelease("Left")
    \/ TitleBar_mouseReleaseEvent("Left")
    \/ Idle /\ ~TitleBarGrab /\ loads < MaxEdgeLoads /\ load_image(ThinImage)
    \/ \E a \in Angles :
          Idle /\ ~TitleBarGrab /\ rotations < MaxEdgeRotations /\ rotate_image(a)

SpecEdge == InitEdge /\ [][NextEdge]_vars

(* SpecLock: the constructed window pressed at mid-height on its left or
   right border, an image loaded before or after the press, and the pointer
   moved horizontally from the press position *)

LockStep == 10

\* on the window's first column, and one past its last column (the pointer
\* on the last half unit of the window, rounded up by toPoint())
LockPresses ==
    PointsOn({<<geo.x + lx, geo.y + geo.h \div 2>> : lx \in {0, geo.w}}, Filtered)

\* horizontal displacements: multiples of LockStep, and one that shrinks the
\* window below the minimum size
LockDeltas == {LockStep * k : k \in -MaxLockSteps .. MaxLockSteps} \cup {-450}

NextLock ==
    \/ presses < MaxLockPresses /\ \E p \in LockPresses : MousePress("Left", p)
    \/ \E dx \in LockDeltas :
          resizing /\ MouseMove(<<start_pos[1] + dx, start_pos[2]>>)
    \/ MouseRelease("Left")
    \/ \E img \in Images : loads < MaxLockLoads /\ load_image(img)

SpecLock == Init /\ [][NextLock]_vars

----------------------------------------------------------------------------
(* Properties *)

\* the pointer displacements of the resize gesture in progress
ResizeDeltas == {PSub(p, start_pos) : p \in MovePoints}

(* C1: every pointer move handled while resizing, whatever the edge mask, the
   pointer delta and the aspect ratio, applies a geometry at least 100 wide
   and 100 high. *)
C1_ResizeKeepsMinimumSize ==
    [][\/ geo'.w >= MinSize /\ geo'.h >= MinSize
       \/ ~resizing
       \/ \A p \in MovePoints : ~MouseMove(p)]_vars

\* a resize with the aspect lock whose candidate was narrower than the floor
\* and whose driven height was lower than the floor, both raised to 100
C1_Witness ==
    /\ resizing
    /\ aspect_ratio # None
    /\ \E d \in ResizeDeltas :
          LET cand == CandidateGeometry(start_geometry[1], resize_edge[1], d)
          IN  /\ cand.w < MinSize
              /\ ConstrainAspect(start_geometry[1], cand, resize_edge[1], aspect_ratio).h < MinSize
              /\ geo = ResizeGeometry(start_geometry[1], resize_edge[1], aspect_ratio, d)
    /\ geo.w = MinSize
    /\ geo.h = MinSize

(* C2: in every reachable state the window is at least 100 wide and 100 high. *)
C2_WindowNeverBelowMinimum == geo.w >= MinSize /\ geo.h >= MinSize

(* C3: after every pointer move that follows a press with an empty edge mask
   (the drag anchors captured, dragging set), the window position is the
   anchor window position plus the pointer's displacement from the anchor
   pointer position. *)
C3_DragFollowsPointer ==
    [][\A p \in MovePoints :
          (dragging /\ MouseMove(p))
              => Pos(geo') = PAdd(window_start_pos, PSub(p, drag_start_pos))]_vars

(* C4: the edge mask computed by get_resize_edge never holds Left and Right
   together, nor Top and Bottom together, also for windows narrower or shorter
   than twice the margin. *)
C4_MaskIsCoherent ==
    resize_edge # None =>
        /\ ~(HasBit(resize_edge[1], 1) /\ HasBit(resize_edge[1], 2))
        /\ ~(HasBit(resize_edge[1], 4) /\ HasBit(resize_edge[1], 8))

\* a press on the window of the one-pixel-wide image where both the left and
\* the right test hold: Left alone
C4_Witness ==
    /\ resizing
    /\ start_geometry[1].w < 2 * resize_margin
    /\ LET l == MapFromGlobal(start_geometry[1], start_pos)
       IN  /\ l[1] < resize_margin /\ l[1] > start_geometry[1].w - resize_margin
           /\ l[2] >= resize_margin /\ l[2] <= start_geometry[1].h - resize_margin
    /\ resize_edge = <<1>>

(* C5: the controller is in exactly one of Idle, Dragging, Resizing: the
   resizing and dragging flags are never both set. *)
C5_NeverResizingAndDragging == ~(resizing /\ dragging)

(* C6: a left release handled in any state leaves both flags clear, the stored
   edge mask cleared and the arrow cursor; from then on, until a left press is
   handled, the controller stays idle and pointer moves change the cursor
   only. *)
C6_ReleaseReturnsToIdle ==
    [][/\ \/ ~resizing' /\ ~dragging' /\ resize_edge' = None /\ cursor' = "Arrow"
          \/ ~MouseRelease("Left")
       /\ (Idle /\ presses' = presses) => Idle'
       /\ \/ geo' = geo /\ UNCHANGED interaction
          \/ ~Idle
          \/ \A p \in MovePoints : ~MouseMove(p)]_vars

\* idle again after a resize that changed the geometry, the pointer hovering
\* over an edge since
C6_Witness ==
    /\ Idle
    /\ presses > 0
    /\ resize_edge = None
    /\ start_geometry # None
    /\ geo # start_geometry[1]
    /\ cursor = "SizeHor"

(* C7 as claimed: for every resize with an aspect ratio r and the mask exactly
   Left or exactly Right, the applied geometry has
   round((width - 18) / (height - 78)) = round(r). *)
C7_RoundedRatioKept ==
    [][\A p \in MovePoints :
          (/\ resizing
           /\ aspect_ratio # None
           /\ resize_edge \in {<<1>>, <<2>>}
           /\ MouseMove(p))
              => RoundRat(geo'.w - ResizeExtraW, geo'.h - ResizeExtraH)
                    = RoundRat(aspect_ratio[1], aspect_ratio[2])]_vars

(* C7 amended: for such a resize, when the applied width and height are both
   above the 100 floor, height - 78 is (width - 18) / r cut to an integer, so
   that r * (height - 78) <= width - 18 <= r * (height - 77). *)
C7_RatioKeptAboveFloor ==
    [][(/\ resizing
        /\ aspect_ratio # None
        /\ resize_edge \in {<<1>>, <<2>>}
        /\ geo'.w > MinSize
        /\ geo'.h > MinSize)
          => \/ /\ aspect_ratio[1] * (geo'.h - ResizeExtraH)
                       <= (geo'.w - ResizeExtraW) * aspect_ratio[2]
                 /\ (geo'.w - ResizeExtraW) * aspect_ratio[2]
                       <= aspect_ratio[1] * (geo'.h - ResizeExtraH + 1)
             \/ \A p \in MovePoints : ~MouseMove(p)]_vars

\* a Right-edge resize with the aspect lock that widened the window
C7_Witness ==
    /\ resizing
    /\ aspect_ratio # None
    /\ resize_edge = <<2>>
    /\ geo.w > MinSize
    /\ geo.h > MinSize
    /\ geo.w = start_geometry[1].w + 40
    /\ geo = ResizeGeometry(start_geometry[1], 2, aspect_ratio, <<40, 40>>)

(* C8: without an aspect ratio, a resize move by (dx, dy) from the anchor makes
   the width anchor + dx for Right, anchor - dx for Left, the anchor width
   otherwise, and the height anchor + dy for Bottom, anchor - dy for Top, the
   anchor height otherwise, whenever that value is at least 100; a
   Bottom-Right drag by (40, 40) adds 40 to both. *)
C8_FreeResizeFollowsDelta ==
    [][(resizing /\ aspect_ratio = None /\ UNCHANGED counters) =>
       \A p \in MovePoints :
          LET sg == start_geometry[1]
              e  == resize_edge[1]
              dx == p[1] - start_pos[1]
              dy == p[2] - start_pos[2]
              ew == IF HasBit(e, 2) THEN sg.w + dx
                    ELSE IF HasBit(e, 1) THEN sg.w - dx ELSE sg.w
              eh == IF HasBit(e, 8) THEN sg.h + dy
                    ELSE IF HasBit(e, 4) THEN sg.h - dy ELSE sg.h
          IN  \/ /\ ew >= MinSize => geo'.w = ew
                 /\ eh >= MinSize => geo'.h = eh
                 /\ (e = 10 /\ dx = 40 /\ dy = 40)
                       => (geo'.w = sg.w + 40 /\ geo'.h = sg.h + 40)
              \/ ~MouseMove(p)]_vars

\* the Bottom-Right corner dragged by (40, 40) with no image loaded
C8_Witness ==
    /\ resizing
    /\ aspect_ratio = None
    /\ resize_edge = <<10>>
    /\ geo.w = start_geometry[1].w + 40
    /\ geo.h = start_geometry[1].h + 40
    /\ Pos(geo) = Pos(start_geometry[1])

(* C9 as claimed: a load with a screen, of an image whose pixel width is at
   most 85% of the usable width and whose pixel height is at most 85% of the
   usable height, leaves the window content equal to the pixel size. *)
C9_FitsAtPixelSize ==
    [][\A img \in Images :
          (/\ screen # None
           /\ load_image(img)
           /\ 100 * img[1] <= 85 * screen[1].w
           /\ 100 * img[2] <= 85 * screen[1].h)
              => (geo'.w = img[1] + ChromeExtraW /\ geo'.h = img[2] + extra_h)]_vars

(* C9 amended: a load with a screen, of an image whose pixel width plus the
   chrome width is at most 85% of the usable width and whose pixel height plus
   the chrome height is at most 85% of the usable height, uses scale 1.0 and
   leaves the window content equal to the pixel size; an 800x600 image on a
   1000x800 usable area is scaled to content 796x597. *)
C9_FitsWithChromeAtPixelSize ==
    [][(screen # None /\ loads' # loads) => \A img \in Images :
          load_image(img) =>
              /\ (/\ 100 * (img[1] + ChromeExtraW) <= 85 * screen[1].w
                  /\ 100 * (img[2] + extra_h) <= 85 * screen[1].h)
                    => /\ LoadScale(img, screen[1]) = ScaleOne
                       /\ geo'.w = img[1] + ChromeExtraW
                       /\ geo'.h = img[2] + extra_h
              /\ (img = <<800, 600>> /\ screen[1].w = 1000 /\ screen[1].h = 800)
                    => (geo'.w = 796 + ChromeExtraW /\ geo'.h = 597 + extra_h)]_vars

\* a 300x200 image loaded at its pixel size on the 1000x800 screen
C9_Witness ==
    /\ screen # None
    /\ loads = 1
    /\ rotations = 0
    /\ presses = 0
    /\ pixmap = <<300, 200>>
    /\ geo.w = 300 + ChromeExtraW
    /\ geo.h = 200 + extra_h

(* C10 as claimed: after four successive rotations none of which was scaled
   down to the screen, the content aspect ratio
   (width - 18) / (height - chrome height) and the stored aspect ratio are
   what they were before the first of them. *)
C10_FourRotationsRestoreRatio ==
    LET n == Len(rot_run)
    IN  (n >= 4 /\ \A i \in n - 3 .. n : ~rot_run[i].scaled) =>
            LET before == rot_run[n - 3]
            IN  /\ (geo.w - ChromeExtraW) * (before.h - extra_h)
                      = (before.w - ChromeExtraW) * (geo.h - extra_h)
                /\ aspect_ratio = before.ar

(* C10 amended: when the window content is at least one unit wide and high
   before the first of four successive rotations none of which is scaled down
   to the screen, the four rotations restore the window's width and height,
   hence the content aspect ratio, and the stored aspect ratio. *)
C10_FourRotationsRestoreContent ==
    LET n == Len(rot_run)
    IN  (n >= 4 /\ \A i \in n - 3 .. n : ~rot_run[i].scaled) =>
            LET before == rot_run[n - 3]
            IN  (before.w > ChromeExtraW /\ before.h > extra_h) =>
                    /\ geo.w = before.w
                    /\ geo.h = before.h
                    /\ (geo.w - ChromeExtraW) * (before.h - extra_h)
                          = (before.w - ChromeExtraW) * (geo.h - extra_h)
                    /\ aspect_ratio = before.ar

\* four unscaled rotations in a row of a window resized beforehand, each
\* changing the window's size
C10_Witness ==
    /\ Len(rot_run) = 4
    /\ \A i \in 1 .. 4 : ~rot_run[i].scaled
    /\ presses > 0
    /\ start_geometry # None
    /\ start_geometry[1].w # rot_run[1].w
    /\ rot_run[1].w > ChromeExtraW
    /\ rot_run[1].h > extra_h
    /\ geo.w = rot_run[1].w
    /\ rot_run[1].w # rot_run[2].w
    /\ rot_run[1].ar # rot_run[2].ar

(* C11 as claimed: for a resize with the mask exactly Right and an aspect
   ratio r, the applied width is the anchor width plus the pointer's
   horizontal displacement and the applied height is
   (candidate width - 18) / r + 78 as an integer; the window (100,100,500,400)
   with r = 1.5 pressed at (600,300) and moved to (650,300) becomes 550 wide
   and 433 high. *)
C11_RightResizeScenario ==
    [][(resizing /\ aspect_ratio # None /\ resize_edge = <<2>>) =>
       \A dx \in LockDeltas :
          LET sg     == start_geometry[1]
              cand_w == sg.w + dx
              new_h  == TruncDiv((cand_w - 18) * aspect_ratio[2], aspect_ratio[1]) + 78
          IN  \/ /\ geo'.w = cand_w
                 /\ geo'.h = new_h
                 /\ (/\ sg = Rect(100, 100, 500, 400)
                     /\ aspect_ratio = <<3, 2>>
                     /\ start_pos = <<600, 300>>
                     /\ dx = 50) => (geo'.w = 550 /\ geo'.h = 433)
              \/ ~MouseMove(<<start_pos[1] + dx, start_pos[2]>>)]_vars

(* C11 amended: for such a resize the applied width is the anchor width plus
   the displacement and the applied height is
   int(max(1, candidate width - 18) / r + 78), the quotient and the sum being
   those of the doubles and the result cut toward zero, each raised to 100
   when it is lower; the window (100,100,500,400) with r = 1.5 pressed at
   (600,300), which the hit test classifies as Right, and moved to (650,300)
   becomes (100,100,550,432). *)
C11_RightResizeTruncates ==
    [][(resizing /\ aspect_ratio # None /\ resize_edge = <<2>>) =>
       \A dx \in LockDeltas :
          LET sg     == start_geometry[1]
              cand_w == sg.w + dx
              cw     == Max(1, cand_w - 18)
              new_h  == FloatDivAddTrunc(cw, aspect_ratio[1], aspect_ratio[2], 78)
          IN  \/ /\ geo'.w = Max(100, cand_w)
                 /\ geo'.h = Max(100, new_h)
                 /\ (/\ sg = Rect(100, 100, 500, 400)
                     /\ aspect_ratio = <<3, 2>>
                     /\ start_pos = <<600, 300>>
                     /\ dx = 50)
                       => /\ get_resize_edge(500, 200, 500, 400, resize_margin) = 2
                          /\ geo' = Rect(100, 100, 550, 432)
              \/ ~MouseMove(<<start_pos[1] + dx, start_pos[2]>>)]_vars

\* the scenario's window after the move to (650,300)
C11_Witness ==
    /\ resizing
    /\ resize_edge = <<2>>
    /\ aspect_ratio = <<3, 2>>
    /\ start_geometry = <<Rect(100, 100, 500, 400)>>
    /\ start_pos = <<600, 300>>
    /\ geo = Rect(100, 100, 550, 432)

(* C12: when an image is loaded and no screen information is available, the
   rotate operation completes without raising an error and applies the
   swapped-content window size, unscaled and unclamped, centred on the
   previous centre; no call of load, rotate, press, move or release ends in
   an unhandled error state.
   As claimed.  rotate_image binds screen_geo only inside "if screen:"
   (lines 482-483) and reads it unconditionally at lines 499-500, so the
   rotation of a loaded image without a screen raises UnboundLocalError
   after the pixmap and the aspect ratio are replaced and before
   setGeometry: the window keeps its size. *)
C12_RotateWithoutScreenCompletes ==
    [][\A a \in Angles :
          (pixmap # None /\ screen = None /\ rotate_image(a))
          => /\ error' = ""
             /\ geo'.w = SwappedSize(geo)[1]
             /\ geo'.h = SwappedSize(geo)[2]
             /\ Center(geo') = Center(geo)]_vars

(* C13: the chrome extent the resize handler uses equals the chrome extent
   image load and rotation use (title-bar height + bottom-bar height + 18
   vertically, 18 horizontally); so, right after a load at 1:1 scale, a pure
   Left/Right resize move with zero pointer delta leaves the window height
   unchanged.
   As claimed.  handle_resize hard-codes extra_h = 78 (line 641) while
   load_image and rotate_image compute 30 + 35 + 18 = 83, so the first move
   of such a resize lowers the window by the difference (windows already at
   or above the minimum size, so that the floor plays no part). *)
C13_ResizeUsesLoadChrome ==
    [][(/\ resizing
        /\ resize_edge \in {<<1>>, <<2>>}
        /\ pixmap # None
        /\ aspect_ratio # None
        /\ start_geometry = <<geo>>
        /\ geo.w = pixmap[1] + ChromeExtraW
        /\ geo.h = pixmap[2] + extra_h
        /\ geo.w >= MinSize
        /\ geo.h >= MinSize
        /\ MouseMove(start_pos))
       => /\ ResizeExtraW = ChromeExtraW
          /\ ResizeExtraH = extra_h
          /\ geo'.h = geo.h]_vars

(* C14: while the controller is Dragging or Resizing no pointer move changes
   the cursor shape; the cursor stays what it was when the press was handled
   and is next changed only by the release (which sets the arrow and ends
   the gesture). *)
C14_CursorFrozenWhileActive ==
    [][(resizing \/ dragging)
       => \/ cursor' = cursor
          \/ cursor' = "Arrow" /\ ~resizing' /\ ~dragging']_vars

\* a resize has moved the window away from its anchor while the cursor kept
\* the shape it had at the press, which the hit test at the pointer's current
\* position would no longer give
C14_Witness ==
    /\ resizing
    /\ start_geometry # <<geo>>
    /\ cursor # "Arrow"
    /\ \E p \in MovePoints :
          /\ geo = ResizeGeometry(start_geometry[1], resize_edge[1], aspect_ratio,
                                  PSub(p, start_pos))
          /\ cursor # CursorFor(EdgeAt(geo, MapFromGlobal(geo, p)))

(* C15: a press or a release of a button other than the left one, through
   the event filter or the window's own mouse handlers, leaves the
   interaction state, the captured anchors, the cursor and the window
   geometry unchanged. *)
C15_OtherButtonsIgnored ==
    [][\/ UNCHANGED <<interaction, cursor, geo>>
       \/ \A b \in Buttons \ {"Left"} :
             /\ ~MouseRelease(b)
             /\ \A p \in PressPoints : ~MousePress(b, p)]_vars

\* a resize in progress with a resize cursor, where a press of another button
\* would start a second gesture and its release would end this one, were
\* they handled
C15_Witness ==
    /\ resizing
    /\ cursor \in {"SizeHor", "SizeVer"}
    /\ start_geometry # <<geo>>
    /\ \E b \in Buttons \ {"Left"} :
          /\ ENABLED MouseRelease(b)
          /\ \E p \in PressPoints : ENABLED MousePress(b, p)

(* C16: get_resize_edge sets Left iff x < margin, Right iff x >= margin and
   x > width - margin, Top iff y < margin, Bottom iff y >= margin and
   y > height - margin, and returns the empty mask exactly when
   margin <= x <= width - margin and margin <= y <= height - margin; the
   result depends only on the pointer position, the window size and the
   margin, whatever the interaction state of the press. *)
C16_EdgeMaskCharacterised ==
    /\ resizing =>
          LET l == MapFromGlobal(start_geometry[1], start_pos)
              x == l[1]
              y == l[2]
              w == start_geometry[1].w
              h == start_geometry[1].h
              m == resize_margin
          IN  /\ ~(m <= x /\ x <= w - m /\ m <= y /\ y <= h - m)
              /\ HasBit(resize_edge[1], 1) <=> x < m
              /\ HasBit(resize_edge[1], 2) <=> (x >= m /\ x > w - m)
              /\ HasBit(resize_edge[1], 4) <=> y < m
              /\ HasBit(resize_edge[1], 8) <=> (y >= m /\ y > h - m)
              /\ resize_edge[1] \in 1 .. 15
    \* SpecEdge takes no resize move, load or rotation while dragging is set:
    \* the window's size at the press is geo's
    /\ dragging =>
          LET l == PSub(drag_start_pos, window_start_pos)
              m == resize_margin
          IN  /\ m <= l[1] /\ l[1] <= geo.w - m
              /\ m <= l[2] /\ l[2] <= geo.h - m

\* a press one unit inside the right margin and exactly on the top margin's
\* boundary: Right alone
C16_Witness ==
    /\ resizing
    /\ resize_margin >= 1
    /\ LET l == MapFromGlobal(start_geometry[1], start_pos)
       IN  /\ l[1] = start_geometry[1].w - resize_margin + 1
           /\ l[1] >= resize_margin
           /\ l[2] = resize_margin
           /\ l[2] <= start_geometry[1].h - resize_margin
    /\ resize_edge = <<2>>

(* C17: a left-button press handled in Idle enters Dragging, capturing the
   pointer position and the current window position, iff the edge mask at
   the press position is empty; otherwise it enters Resizing, capturing the
   pointer position, the current window geometry and that edge mask; the
   press itself does not change the window geometry. *)
C17_PressCapturesAnchors ==
    [][\/ presses' = presses
       \/ ~Idle
       \/ \A p \in PressPoints :
             MousePress("Left", p) =>
                LET edge == get_resize_edge(p[1] - geo.x, p[2] - geo.y,
                                            geo.w, geo.h, resize_margin)
                IN  /\ geo' = geo
                    /\ dragging' <=> edge = 0
                    /\ resizing' <=> edge # 0
                    /\ dragging' => /\ drag_start_pos' = p
                                    /\ window_start_pos' = <<geo.x, geo.y>>
                    /\ resizing' => /\ start_pos' = p
                                    /\ start_geometry' = <<geo>>
                                    /\ resize_edge' = <<edge>>]_vars

\* the second gesture on a window that the first one has moved or resized: a press on
\* an edge from Idle has captured the geometry now current, not the earlier
\* anchor
C17_Witness ==
    /\ resizing
    /\ ~dragging
    /\ presses = 2
    /\ geo # Rect(InitialPos[1], InitialPos[2], DefaultWidth, DefaultHeight)
    /\ start_geometry = <<geo>>
    /\ resize_edge = <<EdgeAt(geo, MapFromGlobal(geo, start_pos))>>

(* C18: for every resize move, with or without an aspect constraint and for
   every pointer delta, a mask containing Left keeps the right edge of the
   anchor geometry and a mask containing Top keeps its bottom edge; a mask
   containing Right (resp. Bottom) keeps the anchor's left (resp. top) edge.
   As claimed.  The minimum-size check (lines 699-703) raises a width or
   height below 100 with setWidth / setHeight, which keep the left and the
   top edge whatever the mask: when the floor applies to a resize from the
   Left or the Top, the right or the bottom edge leaves the anchor's. *)
C18_OppositeEdgeAnchored ==
    [][\/ ~resizing
       \/ \A p \in MovePoints :
             MouseMove(p) =>
                LET sg == start_geometry[1]
                    edge == resize_edge[1]
                IN  /\ HasBit(edge, 1) => Right(geo') = Right(sg)
                    /\ HasBit(edge, 4) => Bottom(geo') = Bottom(sg)
                    /\ HasBit(edge, 2) => Left(geo') = Left(sg)
                    /\ HasBit(edge, 8) => Top(geo') = Top(sg)]_vars

(* C19: for a corner resize (one horizontal and one vertical flag) with
   active aspect constraint r, the width drives exactly when
   |candidateW - anchorW| > |candidateH - anchorH| * r, both taken from the
   unconstrained candidate and the product being the double that the stored
   double r gives; when the width drives, the applied width is the candidate
   width and the height is recomputed from it, otherwise the applied height
   is the candidate height and the width is recomputed from it, each before
   the 100-unit floor. *)
C19_CornerDrivingAxis ==
    [][\/ ~resizing
       \/ aspect_ratio = None
       \/ resize_edge[1] \notin {5, 6, 9, 10}
       \/ \A p \in MovePoints :
             MouseMove(p) =>
                LET sg == start_geometry[1]
                    r == aspect_ratio
                    dx == p[1] - start_pos[1]
                    dy == p[2] - start_pos[2]
                    cand_w == IF HasBit(resize_edge[1], 1) THEN sg.w - dx ELSE sg.w + dx
                    cand_h == IF HasBit(resize_edge[1], 4) THEN sg.h - dy ELSE sg.h + dy
                    width_drives == GreaterThanProduct(Abs(cand_w - sg.w),
                                                       Abs(cand_h - sg.h), r[1], r[2])
                    from_w == FloatDivAddTrunc(Max(1, cand_w - ResizeExtraW),
                                               r[1], r[2], ResizeExtraH)
                    from_h == FloatMulAddTrunc(Max(1, cand_h - ResizeExtraH),
                                               r[1], r[2], ResizeExtraW)
                IN  IF width_drives
                    THEN geo'.w = Max(MinSize, cand_w) /\ geo'.h = Max(MinSize, from_w)
                    ELSE geo'.h = Max(MinSize, cand_h) /\ geo'.w = Max(MinSize, from_h)]_vars

\* the bottom-right corner of the 500x400 window locked at 61:7 pulled by
\* (61, 7): the double 7 * r is below 61 and the width drives
C19_Witness ==
    /\ resizing
    /\ resize_edge = <<10>>
    /\ aspect_ratio = <<61, 7>>
    /\ start_geometry = <<Rect(100, 100, 500, 400)>>
    /\ geo = Rect(100, 100, 561, 140)

(* C20: when a rotation needs no screen scale-down, the new window's content
   width equals the previous content height and the new content height the
   previous content width, content being the window size minus the chrome
   extent read at rotation time (so that two successive rotations restore
   the window's width and height).
   As claimed.  Without a screen no scale-down is needed, and rotate_image
   raises at line 499 before setGeometry: the window keeps its size. *)
C20_RotationSwapsContent ==
    [][\A a \in Angles :
          (/\ pixmap # None
           /\ screen # None => ~NeedsScaleDown(SwappedSize(geo), screen[1])
           /\ rotate_image(a))
          => /\ geo'.w - ChromeExtraW = geo.h - extra_h
             /\ geo'.h - extra_h = geo.w - ChromeExtraW]_vars

(* C21: after every rotation with screen information available the applied
   window width is at most the usable screen width and the applied height at
   most the usable screen height; when the swapped size already fits it is
   applied without any scaling (the scale factor never exceeds 1.0). *)
C21_RotationFitsScreen ==
    [][\/ screen = None
       \/ pixmap = None
       \/ rotations' = rotations
       \/ \A a \in Angles :
             rotate_image(a) =>
                LET new_w == Max(1, geo.h - extra_h) + ChromeExtraW
                    new_h == Max(1, geo.w - ChromeExtraW) + extra_h
                IN  /\ geo'.w <= screen[1].w
                    /\ geo'.h <= screen[1].h
                    /\ geo'.w <= new_w
                    /\ geo'.h <= new_h
                    /\ (new_w <= screen[1].w /\ new_h <= screen[1].h)
                          => (geo'.w = new_w /\ geo'.h = new_h)]_vars

\* a rotation whose swapped size exceeded the screen has been scaled down to
\* it: one dimension fills the screen to within the unit int() cuts off
C21_Witness ==
    /\ screen # None
    /\ rot_run # <<>>
    /\ rot_run[Len(rot_run)].scaled
    /\ geo.w <= screen[1].w
    /\ geo.h <= screen[1].h
    /\ geo.w >= screen[1].w - 1 \/ geo.h >= screen[1].h - 1

(* C22: after every rotation with screen information available the applied
   window's left coordinate is at least the usable screen's left and its top
   coordinate at least the usable screen's top; when neither clamp fires,
   the centre of the new rectangle is the centre of the rectangle before the
   rotation. *)
C22_RotationKeepsTopLeftOnScreen ==
    [][\/ screen = None
       \/ pixmap = None
       \/ rotations' = rotations
       \/ \A a \in Angles :
             rotate_image(a) =>
                LET centred == MoveCenter(Rect(0, 0, geo'.w, geo'.h), Center(geo))
                IN  /\ Left(geo') >= Left(screen[1])
                    /\ Top(geo') >= Top(screen[1])
                    /\ (Left(centred) >= Left(screen[1]) /\ Top(centred) >= Top(screen[1]))
                          => Center(geo') = Center(geo)]_vars

\* a window dragged beyond the screen's top-left corner and then rotated:
\* both clamps have fired and put it at the screen's origin
C22_Witness ==
    /\ screen # None
    /\ rot_run # <<>>
    /\ presses > 0
    /\ window_start_pos # None
    /\ Left(geo) = Left(screen[1])
    /\ Top(geo) = Top(screen[1])
    /\ geo.w < screen[1].w
    /\ geo.h < screen[1].h

(* C23: after every load of a decodable image with screen information
   available, the window width is at most 85% of the usable screen width and
   the window height at most 85% of the usable screen height, the content
   size (window minus chrome) exceeds the image's pixel size in neither
   dimension, and the window is centred on the usable screen area (the two
   margins of each axis differ by at most the unit the halving cuts off). *)
C23_LoadFitsAndCentres ==
    [][\/ loads' = loads
       \/ screen = None
       \/ \A img \in Files \ {NullImage} :
             load_image(img) =>
                LET sg == screen[1]
                    left_margin == Left(geo') - Left(sg)
                    right_margin == Right(sg) - Right(geo')
                    top_margin == Top(geo') - Top(sg)
                    bottom_margin == Bottom(sg) - Bottom(geo')
                IN  /\ 100 * geo'.w <= 85 * sg.w
                    /\ 100 * geo'.h <= 85 * sg.h
                    /\ geo'.w - ChromeExtraW <= img[1]
                    /\ geo'.h - extra_h <= img[2]
                    /\ right_margin - left_margin \in {0, 1}
                    /\ bottom_margin - top_margin \in {0, 1}]_vars

\* an 800x600 image on the 1000x800 screen: scaled down to the 85% height and
\* centred, after the window had been dragged or resized elsewhere
C23_Witness ==
    /\ screen = <<ScreenGeo>>
    /\ pixmap = <<800, 600>>
    /\ presses > 0
    /\ loads = 1
    /\ rotations = 0
    /\ geo = Rect(93, 60, 814, 680)

(* C24: a load of an image that does not decode sets no aspect constraint
   and leaves the window geometry, the stored aspect constraint, the shown
   image and the interaction state unchanged; the aspect constraint is
   present exactly when an image has been loaded, and while none has been,
   every resize is unconstrained: the candidate rectangle raised to the
   minimum size. *)
C24_NullLoadRejected ==
    /\ [](aspect_ratio = None <=> pixmap = None)
    /\ [][\/ loads' = loads
          \/ ~load_image(NullImage)
          \/ UNCHANGED <<geo, aspect_ratio, pixmap, interaction, cursor>>]_vars
    /\ [][\/ ~resizing
          \/ pixmap # None
          \/ \A p \in MovePoints :
                MouseMove(p) =>
                   geo' = MinimumSize(CandidateGeometry(start_geometry[1], resize_edge[1],
                                                        PSub(p, start_pos)))]_vars

\* after a rejected load and no other, a corner resize has changed the width
\* and the height by different amounts
C24_Witness ==
    /\ loads > 0
    /\ pixmap = None
    /\ aspect_ratio = None
    /\ resizing
    /\ resize_edge = <<10>>
    /\ geo.w = start_geometry[1].w + 40
    /\ geo.h = start_geometry[1].h

(* C25: while Resizing, the geometry applied by a pointer move is a function
   of the anchor geometry, the anchor pointer position, the stored edge
   mask, the aspect constraint and the current pointer position only, never
   of earlier moves; with no aspect constraint, moving the pointer back to
   the press position restores exactly the anchor geometry. *)
C25_ResizeDependsOnAnchorsOnly ==
    [][\/ ~resizing
       \/ counters' # counters
       \/ ~resizing'
       \/ \A p \in MovePoints :
             MouseMove(p) =>
                /\ geo' = ResizeGeometry(start_geometry[1], resize_edge[1], aspect_ratio,
                                         <<p[1] - start_pos[1], p[2] - start_pos[2]>>)
                /\ (aspect_ratio = None /\ p = start_pos) => geo' = start_geometry[1]]_vars

\* an unconstrained resize has taken the window away from its anchor, and
\* the move back to the press position is about to restore it
C25_Witness ==
    /\ resizing
    /\ aspect_ratio = None
    /\ geo # start_geometry[1]
    /\ geo.w # start_geometry[1].w
    /\ ENABLED (MouseMove(start_pos) /\ geo' = start_geometry[1])

(* C26: whenever the controller is Resizing, the cursor shape shown is the
   one update_cursor assigns to the stored edge mask (horizontal for Left or
   Right, vertical for Top or Bottom, the matching diagonal for corners),
   for every event sequence, a press directly following a release included.
   As claimed.  handle_mouse_press sets no cursor and handle_mouse_release
   sets the arrow: a press on an edge that follows a release, or any press
   not preceded by a hover at the same place, resizes under the cursor left
   by the earlier event. *)
C26_ResizingCursorMatchesMask ==
    resizing => cursor = CursorFor(resize_edge[1])

====
